---- MODULE Spec2Model ----
(***************************************************************************)
(* Model of minirank/logistic.py: ordinal_logistic_fit and                 *)
(* ordinal_logistic_predict.                                               *)
(*                                                                         *)
(* Arrays are 1-based sequences here and 0-based in the source; a class    *)
(* code c of the source is the integer c, and it indexes position c + 1.   *)
(* numpy arrays live in a small heap `mem` so that aliasing between the    *)
(* caller's arrays and the arrays local to a call is part of the model.    *)
(* The numeric optimizer (scipy TNC) is a black box: it may return any     *)
(* point of the right size that satisfies the bounds it was given.         *)
(* Rationals are pairs <<num, den>>.                                       *)
(***************************************************************************)
EXTENDS Integers, Sequences, FiniteSets, TLC

\* ---- bounds of the model ----
MaxN == 3
MaxK == 3
MaxM == 2

Labels == -1 .. 2
FitRows == {<<0>>, <<1>>}
SolVals == {-1, 1}
Messages == {"Converged", "Max. number of function evaluations reached"}
ThetaVals == -2 .. 2
PredRows == {<<0>>, <<1>>, <<2>>, <<3>>}
Weights == {<<-1>>, <<1>>}
Targets == -2 .. 3

\* Python's None in a bounds pair; a local that holds nothing yet; a
\* reference that is not bound yet
None == <<>>
Null == <<>>
Unbound == "unbound"

VARIABLES pc, mem, given, X, y, idx, unique_y, L_inv, x0, bounds, out,
          warned, ret, pin, theta, unique_theta, mu, tmp, pred

vars == <<pc, mem, given, X, y, idx, unique_y, L_inv, x0, bounds, out,
          warned, ret, pin, theta, unique_theta, mu, tmp, pred>>

fitLocals == <<mem, given, X, y, idx, unique_y, L_inv, x0, bounds, out, warned, ret>>
predLocals == <<pin, theta, unique_theta, mu, tmp, pred>>

\* ---- numpy helpers ----

RECURSIVE SumTo(_, _)
SumTo(f, n) == IF n = 0 THEN 0 ELSE f[n] + SumTo(f, n - 1)

\* vector . vector
VDot(a, b) == SumTo([j \in 1 .. Len(a) |-> a[j] * b[j]], Len(a))

\* matrix . vector
Dot(M, v) == [i \in 1 .. Len(M) |-> VDot(M[i], v)]

Range(s) == {s[i] : i \in 1 .. Len(s)}

\* np.argsort on an array of fewer than 16 elements: insertion sort, which
\* keeps equal keys in their original order.
Argsort(v) ==
    LET rank(i) == Cardinality({j \in 1 .. Len(v) :
                        v[j] < v[i] \/ (v[j] = v[i] /\ j < i)}) + 1
    IN  [r \in 1 .. Len(v) |-> CHOOSE i \in 1 .. Len(v) : rank(i) = r]

\* a[idx] with an index array
Take(a, ix) == [r \in 1 .. Len(ix) |-> a[ix[r]]]

\* np.unique: the sorted distinct values
Unique(v) ==
    LET S == Range(v)
    IN  [r \in 1 .. Cardinality(S) |->
            CHOOSE e \in S : Cardinality({f \in S : f < e}) = r - 1]

\* np.sort
Sort(v) == Take(v, Argsort(v))

\* np.tril(np.ones((k, k)))
Tril(k) == [i \in 1 .. k |-> [j \in 1 .. k |-> IF j <= i THEN 1 ELSE 0]]

Abs(a) == IF a < 0 THEN -a ELSE a

\* np.argmin over one row: a left-to-right scan that keeps the first minimum;
\* the result is the 0-based index
RECURSIVE ArgminScanLast(_, _, _)
ArgminScanLast(row, i, best) ==
    IF i > Len(row) THEN best - 1
    ELSE ArgminScanLast(row, i + 1, IF row[i] <= row[best] THEN i ELSE best)

RECURSIVE ArgminScan(_, _, _)
ArgminScan(row, i, best) ==
    IF i > Len(row) THEN best - 1
    ELSE ArgminScan(row, i + 1, IF row[i] < row[best] THEN i ELSE best)

ArgminLast(row) == ArgminScanLast(row, 2, 1)
Argmin(row) == ArgminScan(row, 2, 1)

\* ---- ordinal_logistic_fit ----

\* np.asarray / safe_asarray of an ndarray: the same object, no copy
AsArray(ref) == ref

\* advanced indexing a[idx] (and .astype) build a new array
TakeAddrInPlace(src, fresh) == src
TakeAddr(src, fresh) == fresh

\* for i, u in enumerate(unique_y): y[y == u] = i      (from position p on)
RECURSIVE Relabel(_, _, _)
Relabel(v, uniq, p) ==
    IF p > Len(uniq) THEN v
    ELSE Relabel([j \in 1 .. Len(v) |-> IF v[j] = uniq[p] THEN p - 1 ELSE v[j]],
                 uniq, p + 1)

\* y = y[idx] of line 66
OrderedLabels(yv) == Take(yv, Argsort(yv))

\* lines 68-70 on the ordered labels
Canonicalize(sorted) == Relabel(sorted, Unique(sorted), 1)

\* x0: zeros / d, then x0[d] = -.5 and x0[d+1:] = 2. / k
InitialPoint(d, k) ==
    [i \in 1 .. d + k |->
        IF i <= d THEN <<0, 1>> ELSE IF i = d + 1 THEN <<-1, 2>> ELSE <<2, k>>]

\* bounds = [(None, None)] * (d + 1) + [(1. / k, None)] * (k - 1)
BoxBounds(d, k) ==
    [i \in 1 .. d + k |->
        IF i <= d + 1 THEN <<None, None>> ELSE << <<1, k>>, None >>]

\* the keyword arguments of the optimize.minimize call
MinimizeCall(start, box) ==
    [fun |-> "f_obj", x0 |-> start, method |-> "TNC", jac |-> "f_grad",
     options |-> "options", callback |-> "callback"]

\* the box the solver works in: the bounds argument, or none at all
SolverBounds(call) ==
    IF "bounds" \in DOMAIN call THEN call.bounds
    ELSE [i \in 1 .. Len(call.x0) |-> <<None, None>>]

Feasible(x, box) ==
    \A i \in 1 .. Len(x) :
        /\ IF box[i][1] = None THEN TRUE ELSE x[i] * box[i][1][2] >= box[i][1][1]
        /\ IF box[i][2] = None THEN TRUE ELSE x[i] * box[i][2][2] <= box[i][2][1]

\* theta0[y] in f_obj / f_grad: every code must index an array of size k
IndexOK(codes, k) == \A i \in 1 .. Len(codes) : -k <= codes[i] /\ codes[i] < k

\* if not out.success: warnings.warn(out.message)
IssueWarningNever(res, ws) == ws
IssueWarning(res, ws) == IF ~res.success THEN Append(ws, res.message) ELSE ws

\* w, z = np.split(out.x, [d]); theta = L_inv.dot(z)
Recover(x, d, L) ==
    [status |-> "returned",
     w |-> SubSeq(x, 1, d),
     theta |-> Dot(L, SubSeq(x, d + 1, Len(x)))]

Init ==
    /\ pc = "idle"
    /\ mem = [a \in {"caller_X", "caller_y", "fit_X", "fit_y"} |-> Null]
    /\ given = Null
    /\ X = Unbound /\ y = Unbound
    /\ idx = Null /\ unique_y = Null /\ L_inv = Null /\ x0 = Null
    /\ bounds = Null /\ out = [returned |-> FALSE] /\ warned = <<>>
    /\ ret = [status |-> "pending"]
    /\ pin = Null /\ theta = Null /\ unique_theta = Null /\ mu = Null
    /\ tmp = Null /\ pred = Null

\* lines 58-59: the call binds X and y
CallFit ==
    /\ pc = "idle"
    /\ \E n \in 1 .. MaxN :
         \E Xin \in [1 .. n -> FitRows], yin \in [1 .. n -> Labels] :
            /\ mem' = [mem EXCEPT !["caller_X"] = Xin, !["caller_y"] = yin]
            /\ given' = [X |-> Xin, y |-> yin]
    /\ X' = AsArray("caller_X")
    /\ y' = AsArray("caller_y")
    /\ pc' = "fit_order"
    /\ UNCHANGED <<idx, unique_y, L_inv, x0, bounds, out, warned, ret>>
    /\ UNCHANGED predLocals

\* lines 62-66: order the input by label
FitOrder ==
    /\ pc = "fit_order"
    /\ LET ix == Argsort(mem[y])
           Xn == TakeAddr(X, "fit_X")
           yn == TakeAddr(y, "fit_y")
           m1 == [mem EXCEPT ![Xn] = Take(mem[X], ix)]
       IN  /\ idx' = ix
           /\ mem' = [m1 EXCEPT ![yn] = OrderedLabels(mem[y])]
           /\ X' = Xn
           /\ y' = yn
    /\ pc' = "fit_relabel"
    /\ UNCHANGED <<given, unique_y, L_inv, x0, bounds, out, warned, ret>>
    /\ UNCHANGED predLocals

\* lines 68-71: make the labels continuous, starting at zero
FitRelabel ==
    /\ pc = "fit_relabel"
    /\ LET coded == Canonicalize(mem[y])
       IN  /\ mem' = [mem EXCEPT ![y] = coded]
           /\ unique_y' = Unique(coded)
    /\ pc' = "fit_setup"
    /\ UNCHANGED <<given, X, y, idx, L_inv, x0, bounds, out, warned, ret>>
    /\ UNCHANGED predLocals

\* lines 74, 131-133, 144: L_inv, the initial point and the box bounds
FitSetup ==
    /\ pc = "fit_setup"
    /\ LET d == Len(mem[X][1])
           k == Len(unique_y)
       IN  /\ L_inv' = Tril(k)
           /\ x0' = InitialPoint(d, k)
           /\ bounds' = BoxBounds(d, k)
    /\ pc' = "fit_solve"
    /\ UNCHANGED <<mem, given, X, y, idx, unique_y, out, warned, ret>>
    /\ UNCHANGED predLocals

\* lines 146-147: the solver's first evaluation of f_obj indexes theta0[y]
\* out of range, and the IndexError leaves fit
FitSolveRaises ==
    /\ pc = "fit_solve"
    /\ ~IndexOK(mem[y], Len(L_inv))
    /\ ret' = [status |-> "raised", exc |-> "IndexError"]
    /\ pc' = "fit_done"
    /\ UNCHANGED <<mem, given, X, y, idx, unique_y, L_inv, x0, bounds, out, warned>>
    /\ UNCHANGED predLocals

\* lines 146-153: the solver returns a terminal point; warn, recover, return
FitSolveReturns ==
    /\ pc = "fit_solve"
    /\ IndexOK(mem[y], Len(L_inv))
    /\ LET call == MinimizeCall(x0, bounds)
       IN  \E x \in [1 .. Len(call.x0) -> SolVals], ok \in BOOLEAN, msg \in Messages :
              /\ Feasible(x, SolverBounds(call))
              /\ ok <=> (msg = "Converged")
              /\ out' = [returned |-> TRUE, x |-> x, success |-> ok, message |-> msg]
    /\ warned' = IssueWarning(out', warned)
    /\ ret' = Recover(out'.x, Len(mem[X][1]), L_inv)
    /\ pc' = "fit_done"
    /\ UNCHANGED <<mem, given, X, y, idx, unique_y, L_inv, x0, bounds>>
    /\ UNCHANGED predLocals

\* ---- ordinal_logistic_predict ----

\* mu = [-1] + midpoints of consecutive distinct thresholds.  A midpoint may
\* be a half-integer, so a centre c is held as the integer 2 * c.
BandCentresWithTop(u) ==
    <<-2>> \o [i \in 1 .. Len(u) - 1 |-> u[i] + u[i + 1]] \o <<2 * u[Len(u)] + 2>>
BandCentres(u) == <<-2>> \o [i \in 1 .. Len(u) - 1 |-> u[i] + u[i + 1]]

\* X.dot(w)
Scores(Xm, w) == [r \in 1 .. Len(Xm) |-> VDot(Xm[r], w)]

\* pairwise_distances(out[:, None], mu[:, None]): |out[r] - mu[c]|, held
\* doubled like the centres
Distances(sc, centres) ==
    [r \in 1 .. Len(sc) |-> [c \in 1 .. Len(centres) |-> Abs(2 * sc[r] - centres[c])]]

\* the call binds w, theta and X
CallPredict ==
    /\ pc = "idle"
    /\ \E k \in 1 .. MaxK, m \in 1 .. MaxM :
         \E th \in [1 .. k -> ThetaVals], Xin \in [1 .. m -> PredRows], w \in Weights :
            pin' = [w |-> w, theta |-> th, X |-> Xin]
    /\ pc' = "pred_bands"
    /\ UNCHANGED <<theta, unique_theta, mu, tmp, pred>>
    /\ UNCHANGED fitLocals

\* lines 163-168, 170: sort, de-duplicate, band centres
PredictBands ==
    /\ pc = "pred_bands"
    /\ theta' = Sort(pin.theta)
    /\ unique_theta' = Sort(Unique(theta'))
    /\ mu' = BandCentres(unique_theta')
    /\ pc' = "pred_classify"
    /\ UNCHANGED <<pin, tmp, pred>>
    /\ UNCHANGED fitLocals

\* lines 169, 171-172: scores, distances to the centres, nearest centre
PredictClassify ==
    /\ pc = "pred_classify"
    /\ tmp' = Distances(Scores(pin.X, pin.w), mu)
    /\ pred' = [r \in 1 .. Len(tmp') |-> Argmin(tmp'[r])]
    /\ pc' = "pred_done"
    /\ UNCHANGED <<pin, theta, unique_theta, mu>>
    /\ UNCHANGED fitLocals

Next ==
    \/ CallFit
    \/ FitOrder
    \/ FitRelabel
    \/ FitSetup
    \/ FitSolveRaises
    \/ FitSolveReturns
    \/ CallPredict
    \/ PredictBands
    \/ PredictClassify

\* ---- properties ----

Distinct(v) == Cardinality(Range(v))
NFeatures == Len(mem[X][1])
FitReturned == pc = "fit_done" /\ ret.status = "returned"
PartialSum(v, from, n) == SumTo([j \in 1 .. n |-> v[from + j]], n)
NonDecreasing(v) == \A i \in 1 .. Len(v) - 1 : v[i] <= v[i + 1]

\* C1: whatever terminal point the solver returns for the arguments it is
\* called with, the theta that fit returns is non-decreasing.
C1_ThetaNonDecreasing == FitReturned => NonDecreasing(ret.theta)

\* C2: after the relabelling loop the codes of the (ordered) samples are the
\* ranks of their raw labels: equal codes iff equal raw labels, a smaller raw
\* label has a smaller code, and the codes are exactly 0 .. k-1 for k the
\* number of distinct raw labels.
C2_CanonicalCodesAreRanks ==
    pc = "fit_setup" =>
        LET raw == OrderedLabels(given.y)
            code == mem[y]
        IN  /\ \A i, j \in 1 .. Len(raw) :
                  /\ (code[i] = code[j]) <=> (raw[i] = raw[j])
                  /\ raw[i] < raw[j] => code[i] < code[j]
            /\ Range(code) = 0 .. Distinct(given.y) - 1

\* C3: for labels with at least two distinct values, fit returns a theta
\* whose length is the number of distinct values of the caller's y, and that
\* number sizes L_inv and the initial point.
C3_ThetaLengthIsDistinctCount ==
    (pc = "fit_done" /\ Distinct(given.y) >= 2) =>
        /\ ret.status = "returned"
        /\ Len(ret.theta) = Distinct(given.y)
        /\ Len(L_inv) = Distinct(given.y)
        /\ Len(x0) = NFeatures + Distinct(given.y)

\* C4: for a theta of length k >= 1, in any order, with or without repeats,
\* every prediction is an integer in 0 .. k-1.
C4_PredictionInRange ==
    pc = "pred_done" =>
        \A r \in 1 .. Len(pred) : pred[r] \in 0 .. Len(pin.theta) - 1

C4_Witness ==
    /\ pc = "pred_done"
    /\ Len(pin.theta) = 3
    /\ pin.theta[1] > pin.theta[2]
    /\ pin.theta[2] = pin.theta[3]
    /\ \E r \in 1 .. Len(pred) : pred[r] = 1

\* C5: when the solver reports non-convergence, fit issues one warning that
\* carries the solver message, does not raise, and returns w = the first d
\* entries of the terminal point and theta = the running sums of the rest.
C5_NonConvergenceWarnsAndReturns ==
    (pc = "fit_done" /\ out.returned /\ ~out.success) =>
        /\ warned = <<out.message>>
        /\ ret.status = "returned"
        /\ ret.w = SubSeq(out.x, 1, NFeatures)
        /\ Len(ret.theta) = Len(out.x) - NFeatures
        /\ \A i \in 1 .. Len(ret.theta) :
              ret.theta[i] = PartialSum(out.x, NFeatures, i)

C5_Witness ==
    /\ pc = "fit_done"
    /\ out.returned
    /\ ~out.success
    /\ Len(ret.theta) >= 2
    /\ warned # <<>>

\* C6: throughout a call to fit, and after it, the caller's X and y hold what
\* the caller passed in.
C6_CallerArraysUnchanged ==
    pc \in {"fit_order", "fit_relabel", "fit_setup", "fit_solve", "fit_done"} =>
        /\ mem["caller_X"] = given.X
        /\ mem["caller_y"] = given.y

C6_Witness ==
    /\ FitReturned
    /\ mem[X] # given.X
    /\ OrderedLabels(given.y) # given.y
    /\ mem[y] # OrderedLabels(given.y)

\* the strictly order-preserving maps from the values S into Targets
OrderPreservingMaps(S) ==
    {g \in [S -> Targets] : \A a, b \in S : a < b => g[a] < g[b]}

\* C7: for every strictly order-preserving integer remapping g of the labels,
\* fit on (X, g(y)) hands the solver the same canonical labels and the same
\* ordered X as fit on (X, y).
C7_RelabelInvariance ==
    pc = "fit_setup" =>
        \A g \in OrderPreservingMaps(Range(given.y)) :
            LET gy == [i \in 1 .. Len(given.y) |-> g[given.y[i]]]
            IN  /\ Canonicalize(OrderedLabels(gy)) = mem[y]
                /\ Take(given.X, Argsort(gy)) = mem[X]

\* C8: the box bounds built in fit are the ones the solver works in, and no
\* returned point has a latent gap z[i], i >= 1, below 1/k.
C8_GapsBoundedBelow ==
    (pc = "fit_done" /\ out.returned) =>
        /\ SolverBounds(MinimizeCall(x0, bounds)) = bounds
        /\ \A i \in 2 .. Len(L_inv) :
              out.x[NFeatures + i] * Len(L_inv) >= 1

\* C9: a row whose score is below every threshold is predicted class 0, and
\* the band centres are in non-decreasing order.
C9_BelowAllThresholdsIsClassZero ==
    pc = "pred_done" =>
        /\ NonDecreasing(mu)
        /\ \A r \in 1 .. Len(pred) :
              (\A i \in 1 .. Len(pin.theta) :
                    Scores(pin.X, pin.w)[r] < pin.theta[i]) => pred[r] = 0

\* C10: each prediction is the index of a band centre at minimum absolute
\* distance from the row's score, and the lowest such index.
C10_NearestCentreLowestIndex ==
    pc = "pred_done" =>
        \A r \in 1 .. Len(pred) :
            LET s == 2 * Scores(pin.X, pin.w)[r]
                p == pred[r] + 1
            IN  /\ p \in 1 .. Len(mu)
                /\ \A c \in 1 .. Len(mu) : Abs(s - mu[p]) <= Abs(s - mu[c])
                /\ \A c \in 1 .. p - 1 : Abs(s - mu[c]) > Abs(s - mu[p])

C10_Witness ==
    /\ pc = "pred_done"
    /\ \E r \in 1 .. Len(pred) :
          \E c \in 1 .. Len(mu) :
             /\ c > pred[r] + 1
             /\ tmp[r][c] = tmp[r][pred[r] + 1]

Spec == Init /\ [][Next]_vars

====
